---- MODULE Spec2Model ----
(***************************************************************************)
(* A model of MVA_NPM_TP_4.py: three shaders (shade, specular_shade,       *)
(* micro_facette_shader) that turn a normal image, a Material and a        *)
(* LightSource into an 8-bit RGB image.                                    *)
(*                                                                         *)
(* numpy float64 values are modelled as decimal fixed-point numbers with   *)
(* Scale units per 1.0, together with the IEEE special values: a value is  *)
(* a record [k, v] with k = "fin" (v = the number times Scale), k = "inf"  *)
(* (v = the sign) or k = "nan".  An operation rounds its result towards    *)
(* zero to 1/Scale where float64 rounds to 2^-53 relative; signed zeros    *)
(* are not distinguished.  Python's None is the record None.               *)
(*                                                                         *)
(* The shaders work element-wise on the pixel grid (no operation reads a   *)
(* neighbouring pixel), so the image is modelled by one pixel.             *)
(***************************************************************************)
EXTENDS Integers, Sequences, FiniteSets, TLC

Scale == 10 ^ 3

(***************************************************************************)
(* float64 values                                                          *)
(***************************************************************************)
Fin(x) == [k |-> "fin", v |-> x]
NaN == [k |-> "nan", v |-> 0]
Inf(s) == [k |-> "inf", v |-> s]
None == [k |-> "none", v |-> 0]

\* An integer n (a Python int or a uint8) converted to float.
FromInt(n) == Fin(n * Scale)

Abs(x) == IF x < 0 THEN -x ELSE x
Sign(x) == IF x < 0 THEN -1 ELSE IF x = 0 THEN 0 ELSE 1

\* |a|*|b|/Scale rounded down, computed by parts so that no intermediate
\* product leaves the 32-bit range while the result is inside it.
MulMag(a, b) ==
    LET qa == a \div Scale
        ra == a % Scale
        qb == b \div Scale
        rb == b % Scale
    IN  qa * qb * Scale + qa * rb + ra * qb + (ra * rb) \div Scale

\* |a|*Scale/|b| rounded down, b > 0.
DivMag(a, b) == (a \div b) * Scale + ((a % b) * Scale) \div b

RECURSIVE IsqrtBetween(_, _, _)
IsqrtBetween(x, lo, hi) ==
    IF lo >= hi THEN lo
    ELSE LET mid == (lo + hi + 1) \div 2
         IN  IF mid * mid <= x THEN IsqrtBetween(x, mid, hi)
             ELSE IsqrtBetween(x, lo, mid - 1)

\* The integer square root of x, 0 <= x < 2^31.
Isqrt(x) == IsqrtBetween(x, 0, 46340)

FNeg(a) ==
    IF a.k = "nan" THEN NaN
    ELSE IF a.k = "inf" THEN Inf(-a.v)
    ELSE Fin(-a.v)

FAdd(a, b) ==
    IF a.k = "nan" \/ b.k = "nan" THEN NaN
    ELSE IF a.k = "inf" /\ b.k = "inf" THEN (IF a.v = b.v THEN a ELSE NaN)
    ELSE IF a.k = "inf" THEN a
    ELSE IF b.k = "inf" THEN b
    ELSE Fin(a.v + b.v)

FSub(a, b) == FAdd(a, FNeg(b))

FMul(a, b) ==
    IF a.k = "nan" \/ b.k = "nan" THEN NaN
    ELSE IF a.k = "inf" \/ b.k = "inf"
         THEN (IF Sign(a.v) * Sign(b.v) = 0 THEN NaN
               ELSE Inf(Sign(a.v) * Sign(b.v)))
    ELSE Fin(Sign(a.v) * Sign(b.v) * MulMag(Abs(a.v), Abs(b.v)))

\* numpy division: x/0 is +-inf, 0/0 is nan (a RuntimeWarning, no exception).
FDiv(a, b) ==
    IF a.k = "nan" \/ b.k = "nan" THEN NaN
    ELSE IF a.k = "inf"
         THEN (IF b.k = "inf" THEN NaN
               ELSE Inf(a.v * (IF b.v < 0 THEN -1 ELSE 1)))
    ELSE IF b.k = "inf" THEN Fin(0)
    ELSE IF b.v = 0 THEN (IF a.v = 0 THEN NaN ELSE Inf(Sign(a.v)))
    ELSE Fin(Sign(a.v) * Sign(b.v) * DivMag(Abs(a.v), Abs(b.v)))

\* np.sqrt
FSqrt(a) ==
    IF a.k = "nan" THEN NaN
    ELSE IF a.k = "inf" THEN (IF a.v > 0 THEN a ELSE NaN)
    ELSE IF a.v < 0 THEN NaN
    ELSE IF a.v <= 2000000 THEN Fin(Isqrt(a.v * Scale))
    ELSE Fin(Isqrt(a.v * (Scale \div 100)) * 10)

\* Comparisons; every comparison with nan is False.
FGt(a, b) ==
    IF a.k = "nan" \/ b.k = "nan" THEN FALSE
    ELSE IF a.k = "inf" THEN a.v > 0 /\ ~(b.k = "inf" /\ b.v > 0)
    ELSE IF b.k = "inf" THEN b.v < 0
    ELSE a.v > b.v

FLt(a, b) == FGt(b, a)

FEq(a, b) == a.k # "nan" /\ a = b

\* np.maximum(a, b): nan if either is nan.
FMaximum(a, b) ==
    IF a.k = "nan" \/ b.k = "nan" THEN NaN
    ELSE IF FGt(a, b) THEN a ELSE b

\* np.power(x, e) for an exponent e that is a multiple of 1/2 (the
\* shininess values 0., .5 and 1. of try_different_spec_shininess are):
\* x^0 = 1 for every x, nan included; a negative base with a fractional
\* exponent gives nan; 0 to a negative power gives inf.
RECURSIVE PowHalves(_, _)
PowHalves(a, m) ==
    IF m = 0 THEN Fin(Scale)
    ELSE IF m % 2 = 1 THEN FMul(FSqrt(a), PowHalves(a, m - 1))
    ELSE FMul(a, PowHalves(a, m - 2))

FPower(a, e) ==
    IF e.v = 0 THEN Fin(Scale)
    ELSE IF e.v > 0 THEN PowHalves(a, (2 * e.v) \div Scale)
    ELSE FDiv(Fin(Scale), PowHalves(a, (2 * (-e.v)) \div Scale))

RECURSIVE TwoTo(_)
TwoTo(i) == IF i = 0 THEN 1 ELSE 2 * TwoTo(i - 1)

\* np.power(2, e): 2^floor(e) times 2^frac(e), the latter by the quadratic
\* 1 + 0.6565 f + 0.3435 f^2 (exact at f = 0 and f = 1, within 0.002 between).
Exp2(e) ==
    IF e.k = "nan" THEN NaN
    ELSE IF e.k = "inf" THEN (IF e.v > 0 THEN e ELSE Fin(0))
    ELSE LET ip == IF e.v >= 0 THEN e.v \div Scale
                   ELSE -((-e.v + Scale - 1) \div Scale)
             fr == e.v - ip * Scale
             m  == Scale + (fr * 6565) \div 10000
                         + (((fr * fr) \div Scale) * 3435) \div 10000
         IN  IF ip >= 0 THEN Fin(m * TwoTo(ip)) ELSE Fin(m \div TwoTo(-ip))

\* np.pi
Pi == Fin((355 * Scale + 56) \div 113)

(***************************************************************************)
(* Vectors: the last axis of an array, three components.                   *)
(***************************************************************************)
Chan == 1 .. 3

\* (a*b).sum(-1)
Dot(a, b) == FAdd(FAdd(FMul(a[1], b[1]), FMul(a[2], b[2])), FMul(a[3], b[3]))

\* np.linalg.norm(v) over the last axis
Norm(v) == FSqrt(Dot(v, v))

\* np.array of integers, as the floats the arithmetic promotes them to
AsFloats(t) == [c \in Chan |-> FromInt(t[c])]

NoVec == [c \in Chan |-> None]

(***************************************************************************)
(* Helper classes                                                          *)
(***************************************************************************)
\* Material.__init__: the four fields, stored as given; specular_coef and
\* shininess default to None.
Material(albedo_rgb, diffuse_coef, specular_coef, shininess) ==
    [albedo |-> albedo_rgb, diffuse_coef |-> diffuse_coef,
     specular_coef |-> specular_coef, shininess |-> shininess]

\* LightSource.__init__: direction and color become arrays.
LightSource(direction, color, intensity) ==
    [direction |-> AsFloats(direction), rgb |-> AsFloats(color),
     intensity |-> intensity]

(***************************************************************************)
(* The steps the three shaders share                                       *)
(***************************************************************************)
\* n = np.array(normalImage)[:,:,:3]; n_copy = n.copy();
\* n_norm = norm(n); n_norm[n_norm==0] = 1; n = n/n_norm
Normals(normalImage) ==
    LET n0      == AsFloats(normalImage)
        n_norm0 == Norm(n0)
        n_norm  == IF FEq(n_norm0, Fin(0)) THEN Fin(Scale) ELSE n_norm0
    IN  [n_copy |-> normalImage, n_norm |-> n_norm,
         n |-> [c \in Chan |-> FDiv(n0[c], n_norm)]]

\* light_dir = light_source.direction
\* light_dir = light_dir/np.linalg.norm(light_dir)     (no guard on the norm)
LightDir(light_source) ==
    LET d  == light_source.direction
        nl == Norm(d)
    IN  [norm |-> nl, light_dir |-> [c \in Chan |-> FDiv(d[c], nl)]]

\* A faulty variant: the normalisation done in place (light_dir /= norm), which writes
\* the quotient into the object's array.
DirectionAfterInPlace(light_source, light_dir) == light_dir

\* The array light_source.direction after the normalisation: line 74 binds
\* the quotient to the local name light_dir, the object's array is not
\* written.
DirectionAfter(light_source, light_dir) == light_source.direction

\* A faulty variant: the division by np.pi left out.
LambertNoPi(material) ==
    [c \in Chan |-> FMul(material.diffuse_coef, FromInt(material.albedo[c]))]

\* Lambert BRDF: f_d = material.diffuse_coef * material.albedo / np.pi
Lambert(material) ==
    [c \in Chan |->
        FDiv(FMul(material.diffuse_coef, FromInt(material.albedo[c])), Pi)]

\* A faulty variant: the light's color enters the rendering equation.
IncomingColored(light_source, c) ==
    FMul(light_source.intensity, FDiv(light_source.rgb[c], FromInt(255)))

\* The factor (light_source.intensity ) of the rendering equation, for channel
\* c: the same scalar for every channel.
Incoming(light_source, c) == light_source.intensity

\* np.maximum(np.expand_dims((n*light_dir).sum(-1), axis=-1), 0)
Cosine(n, light_dir) == FMaximum(Dot(n, light_dir), Fin(0))

\* A faulty variant: the comparison turned round (out[out<255] = 255).
ClampFlipped(x) == IF FLt(x, FromInt(255)) THEN FromInt(255) ELSE x

\* out[out>255] = 255, on one element
Clamp(x) == IF FGt(x, FromInt(255)) THEN FromInt(255) ELSE x

\* out[n_copy<5] = 0, on one element: the index array n_copy<5 has the shape
\* of out, one boolean per channel.
Mask(x, raw) == IF raw < 5 THEN Fin(0) ELSE x

\* shade and specular_shade: clamp, then mask
ClampThenMask(x, raw) == Mask(Clamp(x), raw)

\* micro_facette_shader: mask, then clamp
MaskThenClamp(x, raw) == Clamp(Mask(x, raw))

\* The builds: what out.astype(np.uint8) gives for a value uint8 cannot hold
\* (a C cast with undefined behaviour).  x86-64 converts through a signed
\* integer and keeps the low byte (nan -> 0, -3.7 -> 253); a saturating
\* conversion gives 0 for negatives, and nan becomes the largest integer on
\* targets such as RISC-V (low byte 255).
Builds == {[nan |-> 0, neg |-> "wrap"], [nan |-> 255, neg |-> "zero"]}

\* out.astype(np.uint8), on one element: truncation towards zero.
AsUint8(x, b) ==
    IF x.k = "nan" THEN b.nan
    ELSE IF x.k = "inf" THEN (IF b.neg = "wrap" \/ x.v < 0 THEN 0 ELSE 255)
    ELSE IF x.v >= 0 THEN
        (IF x.v < 256 * Scale THEN x.v \div Scale
         ELSE IF b.neg = "wrap" THEN (x.v \div Scale) % 256 ELSE 255)
    ELSE IF -x.v < Scale THEN 0
    ELSE IF b.neg = "wrap" THEN (-((-x.v) \div Scale)) % 256 ELSE 0

VARIABLES
    img,      \* the loaded normal image (one pixel, three uint8 channels)
    mat,      \* the Material object
    light,    \* the LightSource object
    build,    \* the build the program runs on (see Builds)
    last,     \* the last shader call: arguments, locals, result
    prev      \* the call before it: arguments and result

vars == <<img, mat, light, build, last, prev>>

NoImage == <<>>

(***************************************************************************)
(* Diffuse shader                                                          *)
(***************************************************************************)
shade(normalImage, material, light_source) ==
    LET N        == Normals(normalImage)
        L        == LightDir(light_source)
        f_d      == Lambert(material)
        cosine   == Cosine(N.n, L.light_dir)
        computed == [c \in Chan |->
                        FMul(FMul(Incoming(light_source, c), f_d[c]), cosine)]
        out      == [c \in Chan |-> ClampThenMask(computed[c], N.n_copy[c])]
    IN  [err |-> "none", n_copy |-> N.n_copy, n |-> N.n,
         light_dir |-> L.light_dir, f_d |-> f_d, w_h |-> NoVec, f_s |-> None,
         prod |-> Dot(N.n, L.light_dir), cosine |-> cosine,
         computed |-> computed, out |-> out,
         im |-> [c \in Chan |-> AsUint8(out[c], build)],
         divisors |-> {<<"n_norm", N.n_norm>>, <<"light_norm", L.norm>>,
                       <<"pi", Pi>>},
         direction |-> DirectionAfter(light_source, L.light_dir)]

(***************************************************************************)
(* Specular shader                                                         *)
(***************************************************************************)
\* out_dir = [1,1,1]
out_dir == AsFloats(<<1, 1, 1>>)

\* The divisor of line 126: 2. * np.linalg.norm(light_dir + out_dir)
HalfDivisor(light_dir) ==
    FMul(FromInt(2), Norm([c \in Chan |-> FAdd(light_dir[c], out_dir[c])]))

\* w_h = (light_dir + out_dir)/(2. * np.linalg.norm(light_dir + out_dir))
HalfVector(light_dir) ==
    [c \in Chan |-> FDiv(FAdd(light_dir[c], out_dir[c]), HalfDivisor(light_dir))]

\* A faulty variant: a missing coefficient counts as 0 instead of raising.
OperandErrorIgnored(material) == "none"

\* Line 127 multiplies material.specular_coef and raises to the power
\* material.shininess; with None for either, numpy raises TypeError
\* (unsupported operand type).
OperandError(material) ==
    IF material.shininess = None \/ material.specular_coef = None
    THEN "TypeError" ELSE "none"

\* f_s = material.specular_coef * np.power((n*w_h).sum(-1), material.shininess)
BlinnPhong(n, w_h, material) ==
    FMul(material.specular_coef, FPower(Dot(n, w_h), material.shininess))

specular_shade(normalImage, material, light_source) ==
    LET N        == Normals(normalImage)
        L        == LightDir(light_source)
        f_d      == Lambert(material)
        w_h      == HalfVector(L.light_dir)
        divisors == {<<"n_norm", N.n_norm>>, <<"light_norm", L.norm>>,
                     <<"pi", Pi>>, <<"w_h", HalfDivisor(L.light_dir)>>}
    IN  IF OperandError(material) # "none"
        THEN [err |-> OperandError(material), n_copy |-> N.n_copy, n |-> N.n,
              light_dir |-> L.light_dir, f_d |-> f_d, w_h |-> w_h,
              f_s |-> None, prod |-> None, cosine |-> None,
              computed |-> NoVec, out |-> NoVec, im |-> NoImage,
              divisors |-> divisors,
              direction |-> DirectionAfter(light_source, L.light_dir)]
        ELSE
        LET f_s      == BlinnPhong(N.n, w_h, material)
            cosine   == Cosine(N.n, L.light_dir)
            computed == [c \in Chan |->
                            FMul(FMul(Incoming(light_source, c), FAdd(f_d[c], f_s)),
                                 cosine)]
            out      == [c \in Chan |-> ClampThenMask(computed[c], N.n_copy[c])]
        IN  [err |-> "none", n_copy |-> N.n_copy, n |-> N.n,
             light_dir |-> L.light_dir, f_d |-> f_d, w_h |-> w_h, f_s |-> f_s,
             prod |-> Dot(N.n, L.light_dir), cosine |-> cosine,
             computed |-> computed, out |-> out,
             im |-> [c \in Chan |-> AsUint8(out[c], build)],
             divisors |-> divisors,
             direction |-> DirectionAfter(light_source, L.light_dir)]

(***************************************************************************)
(* Microfacet shader                                                       *)
(***************************************************************************)
\* The divisor of D: np.pi*(1 + prod**2 * coef)**2
DDivisor(alpha, n, w_h) ==
    LET prod == Dot(n, w_h)
        coef == FSub(FMul(alpha, alpha), Fin(Scale))
        t    == FAdd(Fin(Scale), FMul(FMul(prod, prod), coef))
    IN  FMul(Pi, FMul(t, t))

D(alpha, n, w_h) == FDiv(FMul(alpha, alpha), DDivisor(alpha, n, w_h))

\* The divisor of G1: prod * (1-k) + k with k = alpha * np.sqrt(2/np.pi)
G1Divisor(alpha, n, w) ==
    LET prod == Dot(n, w)
        k    == FMul(alpha, FSqrt(FDiv(FromInt(2), Pi)))
    IN  FAdd(FMul(prod, FSub(Fin(Scale), k)), k)

G1(alpha, n, w) == FDiv(Dot(n, w), G1Divisor(alpha, n, w))

G(alpha, w_i, w_o, n) == FMul(G1(alpha, n, w_i), G1(alpha, n, w_o))

\* f_0 + (1-f_0)*np.power(2, (-5.55473*prod - 6.98316)*prod)
F(n, w_h, f_0) ==
    LET prod == Dot(n, w_h)
        e    == FMul(FSub(FMul(Fin(-((555473 * Scale) \div 100000)), prod),
                          Fin((698316 * Scale) \div 100000)),
                     prod)
    IN  FAdd(f_0, FMul(FSub(Fin(Scale), f_0), Exp2(e)))

\* The divisor of line 195: np.linalg.norm(light_dir + out_dir)
UnitHalfDivisor(light_dir) ==
    Norm([c \in Chan |-> FAdd(light_dir[c], out_dir[c])])

\* w_h = (light_dir + out_dir)/(np.linalg.norm(light_dir + out_dir))
UnitHalfVector(light_dir) ==
    [c \in Chan |->
        FDiv(FAdd(light_dir[c], out_dir[c]), UnitHalfDivisor(light_dir))]

\* prod_i[prod_i==0]=1, prod_o[prod_o==0]=1, on one element
NonZero(x) == IF FEq(x, Fin(0)) THEN Fin(Scale) ELSE x

\* The divisor of line 201: 4*prod_i*prod_o, after the two replacements
SpecularDivisor(n, light_dir) ==
    FMul(FMul(FromInt(4), NonZero(Dot(n, light_dir))), NonZero(Dot(n, out_dir)))

micro_facette_shader(normalImage, material, alpha, f_0, light_source) ==
    LET N        == Normals(normalImage)
        L        == LightDir(light_source)
        f_d      == Lambert(material)
        w_h      == UnitHalfVector(L.light_dir)
        f_s      == FDiv(FMul(FMul(D(alpha, N.n, w_h), F(N.n, w_h, f_0)),
                              G(alpha, L.light_dir, out_dir, N.n)),
                         SpecularDivisor(N.n, L.light_dir))
        cosine   == Cosine(N.n, L.light_dir)
        computed == [c \in Chan |->
                        FMul(FMul(Incoming(light_source, c), FAdd(f_d[c], f_s)),
                             cosine)]
        out      == [c \in Chan |-> MaskThenClamp(computed[c], N.n_copy[c])]
    IN  [err |-> "none", n_copy |-> N.n_copy, n |-> N.n,
         light_dir |-> L.light_dir, f_d |-> f_d, w_h |-> w_h, f_s |-> f_s,
         prod |-> Dot(N.n, L.light_dir), cosine |-> cosine,
         computed |-> computed, out |-> out,
         im |-> [c \in Chan |-> AsUint8(out[c], build)],
         divisors |-> {<<"n_norm", N.n_norm>>, <<"light_norm", L.norm>>,
                       <<"pi", Pi>>, <<"w_h", UnitHalfDivisor(L.light_dir)>>,
                       <<"D", DDivisor(alpha, N.n, w_h)>>,
                       <<"G1_i", G1Divisor(alpha, N.n, L.light_dir)>>,
                       <<"G1_o", G1Divisor(alpha, N.n, out_dir)>>,
                       <<"f_s", SpecularDivisor(N.n, L.light_dir)>>},
         direction |-> DirectionAfter(light_source, L.light_dir)]

(***************************************************************************)
(* The inputs the model draws                                              *)
(***************************************************************************)
\* Pixels of the normal image: black background, a pixel with one channel
\* under the threshold, the flat-map pixel, a grey pixel, a pixel along z.
Pixels == {<<0, 0, 0>>, <<3, 200, 200>>, <<128, 128, 255>>,
           <<255, 255, 255>>, <<0, 0, 255>>}

\* Lights: along z with intensity 1.0, the diagonal and the light from
\* behind (-z) with the 1.413 of the demonstrations, and a zero direction.
Lights == {<<<<0, 0, 1>>, Fin(Scale)>>,
           <<<<1, 1, 1>>, Fin((1413 * Scale) \div 1000)>>,
           <<<<0, 0, -1>>, Fin((1413 * Scale) \div 1000)>>,
           <<<<0, 0, 0>>, Fin(Scale)>>}

Colors == {<<255, 255, 255>>, <<255, 0, 0>>}

\* Materials: a white one with diffuse_coef 1 and the two optional fields
\* left at None; those of the demonstrations (line 270 with the shininess .5
\* of line 146, line 148 with the pair (100, 1.) of line 145); and one whose
\* shininess alone is left at None.
Materials ==
    {Material(<<255, 255, 255>>, Fin(Scale), None, None),
     Material(<<0, 191, 255>>, Fin((45 * Scale) \div 10), FromInt(255),
              Fin(Scale \div 2)),
     Material(<<62, 28, 82>>, Fin((45 * Scale) \div 10), FromInt(100),
              Fin(Scale)),
     Material(<<62, 28, 82>>, Fin((45 * Scale) \div 10), FromInt(100), None)}

\* (alpha, f_0): roughness 0.628, for which k = alpha*sqrt(2/pi) is 0.5 in
\* this arithmetic (in float64 alpha = 0.6266570686577501 gives k = 0.5),
\* with f_0 = 1.0; roughness 4.0 with the f_0 = 70. of line 300.
MicroParams == {<<Fin((628 * Scale) \div 1000), Fin(Scale)>>,
                <<FromInt(4), FromInt(70)>>}

NoCall ==
    [mode |-> "none", alpha |-> None, f_0 |-> None,
     image |-> NoImage, material |-> None, light |-> None, res |-> None,
     after |-> None]

InitWith(lights) ==
    /\ img \in Pixels
    /\ mat \in Materials
    /\ \E l \in lights, col \in Colors : light = LightSource(l[1], col, l[2])
    /\ build \in Builds
    /\ last = NoCall
    /\ prev = NoCall

Init == InitWith(Lights)

\* What a later call is compared with: the arguments and the result.
Summary(call) ==
    [mode |-> call.mode, alpha |-> call.alpha, f_0 |-> call.f_0,
     image |-> call.image, material |-> call.material, light |-> call.light,
     res |-> IF call.mode = "none" THEN None
             ELSE [err |-> call.res.err, im |-> call.res.im],
     after |-> call.after]

\* A call of a shader on the program's objects; the objects afterwards are
\* what the call left of them.
Returned(mode, alpha, f_0, res) ==
    /\ light' = [light EXCEPT !.direction = res.direction]
    /\ UNCHANGED <<img, mat, build>>
    /\ last' = [mode |-> mode, alpha |-> alpha, f_0 |-> f_0, image |-> img,
                material |-> mat, light |-> light, res |-> res,
                after |-> [image |-> img', material |-> mat', light |-> light']]
    /\ prev' = Summary(last)

CallShade == Returned("shade", None, None, shade(img, mat, light))

CallSpecularShade ==
    Returned("specular_shade", None, None, specular_shade(img, mat, light))

CallMicroFacetteShaderWith(params) ==
    \E p \in params :
        Returned("micro_facette_shader", p[1], p[2],
                 micro_facette_shader(img, mat, p[1], p[2], light))

CallMicroFacetteShader == CallMicroFacetteShaderWith(MicroParams)

\* The program builds a new LightSource, as the demonstrations do before each
\* series of calls: here one with the direction and intensity of the current
\* light and a color of Colors.
NewLightSource ==
    /\ \E l \in Lights, col \in Colors :
          /\ AsFloats(l[1]) = light.direction
          /\ l[2] = light.intensity
          /\ light' = LightSource(l[1], col, l[2])
    /\ UNCHANGED <<img, mat, build, last, prev>>

Next ==
    \/ CallShade
    \/ CallSpecularShade
    \/ CallMicroFacetteShader
    \/ NewLightSource

Spec == Init /\ [][Next]_vars

\* The same program on the inputs for which no divisor is zero: the lights
\* with a nonzero direction and the roughness 4.0.
RegularLights == {l \in Lights : l[1] # <<0, 0, 0>>}

RegularMicroParams == {p \in MicroParams : p[1] = FromInt(4)}

InitRegular == InitWith(RegularLights)

CallMicroFacetteShaderRegular == CallMicroFacetteShaderWith(RegularMicroParams)

NextRegular ==
    \/ CallShade
    \/ CallSpecularShade
    \/ CallMicroFacetteShaderRegular
    \/ NewLightSource

SpecRegular == InitRegular /\ [][NextRegular]_vars

(***************************************************************************)
(* Properties                                                              *)
(***************************************************************************)
Called == last.mode # "none"

Succeeded == Called /\ last.res.err = "none"

Black == [c \in Chan |-> 0]

\* The last call ran on the objects as the call before it left them, in the
\* same mode and with the same alpha and f_0.
SameCallAgain ==
    /\ Called
    /\ prev.mode = last.mode
    /\ prev.alpha = last.alpha
    /\ prev.f_0 = last.f_0
    /\ prev.after = [image |-> last.image, material |-> last.material,
                     light |-> last.light]

\* The last two calls had the same mode and arguments, the light's color
\* left aside.
SameCallButColor ==
    /\ Called
    /\ prev.mode = last.mode
    /\ prev.alpha = last.alpha
    /\ prev.f_0 = last.f_0
    /\ prev.image = last.image
    /\ prev.material = last.material
    /\ prev.light.direction = last.light.direction
    /\ prev.light.intensity = last.light.intensity

\* C1: in each mode, a pixel with at least one raw channel value < 5 comes out
\* as (0,0,0) in all three channels.
C1_BackgroundPixelIsBlack ==
    (Succeeded /\ \E c \in Chan : last.image[c] < 5) => last.res.im = Black

\* C2: in each mode, every output channel lies in [0,255] after the clamp and
\* mask steps and before the conversion to uint8 (raw normals in [0,255], a
\* nonzero light direction, non-negative coefficients).
C2_OutputInRange ==
    (Succeeded /\ last.light.direction # AsFloats(<<0, 0, 0>>)) =>
        \A c \in Chan :
            /\ last.res.out[c].k = "fin"
            /\ last.res.out[c].v >= 0
            /\ last.res.out[c].v <= 255 * Scale

\* C3: in each mode, a pixel whose normalized normal n has n . light_dir <= 0
\* has the cosine factor 0 and comes out as (0,0,0).
C3_LightBehindIsBlack ==
    (Succeeded /\ last.res.prod.k = "fin" /\ last.res.prod.v <= 0) =>
        (last.res.cosine = Fin(0) /\ last.res.im = Black)

\* C4: in each mode every division has a nonzero divisor, and no nan or inf
\* reaches the output grid.
C4_NoZeroDivisor ==
    Called =>
        /\ \A d \in last.res.divisors : d[2].k = "fin" /\ d[2].v # 0
        /\ last.res.err = "none" =>
                \A c \in Chan : last.res.out[c].k = "fin"

\* C5: a mode called twice in a row on the same image, Material and
\* LightSource (and alpha, f_0) gives the same output both times, and a call
\* leaves the image, the Material and the LightSource as they were.
C5_RepeatedCallSameOutput ==
    /\ Called =>
            last.after = [image |-> last.image, material |-> last.material,
                          light |-> last.light]
    /\ SameCallAgain =>
            prev.res = [err |-> last.res.err, im |-> last.res.im]

C5_Witness == SameCallAgain /\ last.res.err = "none"

\* C6 as stated: specular_shade on a Material whose specular_coef or shininess
\* is None fails with MissingMaterialParameter and returns no image.
C6_FailsWithMissingMaterialParameter ==
    (/\ last.mode = "specular_shade"
     /\ (last.material.specular_coef = None \/ last.material.shininess = None))
    => (last.res.err = "MissingMaterialParameter" /\ last.res.im = NoImage)

\* C6 amended: specular_shade on a Material whose specular_coef or shininess
\* is None fails with the TypeError of line 127 and returns no image.
C6_FailsWithTypeError ==
    (/\ last.mode = "specular_shade"
     /\ (last.material.specular_coef = None \/ last.material.shininess = None))
    => (last.res.err = "TypeError" /\ last.res.im = NoImage)

C6_Witness ==
    /\ last.mode = "specular_shade"
    /\ last.material.specular_coef = None
    /\ last.res.err = "TypeError"

\* The scenario of C7: shade on the pixel (128,128,255) with light direction
\* (0,0,1), intensity 1.0, diffuse_coef 1 and albedo (255,255,255).
FlatMapScenario ==
    /\ last.mode = "shade"
    /\ last.image = <<128, 128, 255>>
    /\ last.light.direction = AsFloats(<<0, 0, 1>>)
    /\ last.light.intensity = Fin(Scale)
    /\ last.material.diffuse_coef = Fin(Scale)
    /\ last.material.albedo = <<255, 255, 255>>

\* C7 as stated: the scenario gives a value within 1 of 255/pi (81) in every
\* channel.
C7_FlatMapGives81 ==
    FlatMapScenario => \A c \in Chan : last.res.im[c] \in 80 .. 82

\* C7 amended: the scenario gives 66 within 1 in every channel, that is
\* (255/pi) * 255/sqrt(128^2 + 128^2 + 255^2): the raw triple is normalized
\* as it is, so the normal is not along +z.
C7_FlatMapGives66 ==
    FlatMapScenario => \A c \in Chan : last.res.im[c] \in 65 .. 67

C7_Witness == FlatMapScenario /\ last.res.err = "none"

\* C8: in specular_shade the half-vector w_h used in the dot product has
\* length 1 (here: squared length within 0.01 of 1).
C8_HalfVectorUnitLength ==
    (/\ last.mode = "specular_shade"
     /\ last.res.err = "none"
     /\ last.light.direction # AsFloats(<<0, 0, 0>>))
    => /\ Dot(last.res.w_h, last.res.w_h).k = "fin"
       /\ Abs(Dot(last.res.w_h, last.res.w_h).v - Scale) <= Scale \div 100

\* C9: on every computed value and raw channel value, mask-then-clamp (the
\* microfacet mode) and clamp-then-mask (the other two modes) agree.
C9_PostProcessingOrder ==
    Succeeded =>
        \A c \in Chan :
            MaskThenClamp(last.res.computed[c], last.res.n_copy[c])
                = ClampThenMask(last.res.computed[c], last.res.n_copy[c])

\* Both steps act on one element: its raw value is under the threshold and
\* its computed value over 255.
C9_Witness ==
    /\ Succeeded
    /\ \E c \in Chan :
          /\ last.res.n_copy[c] < 5
          /\ FGt(last.res.computed[c], FromInt(255))

\* C10: two calls of a mode whose arguments differ in the light's color alone
\* give the same output.
C10_ColorIndependent ==
    SameCallButColor => prev.res = [err |-> last.res.err, im |-> last.res.im]

C10_Witness ==
    /\ SameCallButColor
    /\ prev.light.rgb # last.light.rgb
    /\ last.res.err = "none"
    /\ last.res.im # Black

====
